---- MODULE Spec2Model ----
(***************************************************************************)
(* Model of rsky-syntax's AtUri (src/rsky-syntax/src/aturi.rs) and of     *)
(* rsky-pds's read_car_bytes (src/rsky-pds/src/car.rs).                    *)
(*                                                                         *)
(* A Rust String is a sequence of one-character strings, so that the       *)
(* regular expressions, split/join and the query (de)serialisation are     *)
(* computed character by character, as the code computes them.             *)
(***************************************************************************)
EXTENDS Integers, Sequences, FiniteSets, TLC

VARIABLES pc, uri, err, call, ret,
          carPc, root, blocks, idx, writer, car

vars == <<pc, uri, err, call, ret, carPc, root, blocks, idx, writer, car>>
uriVars == <<pc, uri, err, call, ret>>
carVars == <<carPc, root, blocks, idx, writer, car>>

----------------------------------------------------------------------------
(* Bounds of the model.                                                    *)

\* longest input string enumerated over Alphabet
MaxLen == 4
\* longest block sequence handed to read_car_bytes
MaxBlocks == 2

----------------------------------------------------------------------------
(* Strings.                                                                *)

Lower == {"a","b","c","d","e","f","g","h","i","j","k","l","m",
          "n","o","p","q","r","s","t","u","v","w","x","y","z"}
Upper == {"A","B","C","D","E","F","G","H","I","J","K","L","M",
          "N","O","P","Q","R","S","T","U","V","W","X","Y","Z"}
Digit == {"0","1","2","3","4","5","6","7","8","9"}
Alnum == Lower \cup Upper \cup Digit
\* \s of the regex crate, as far as the model's characters go
Space == {" ", "\t", "\n", "\r"}

UpperSeq == <<"A","B","C","D","E","F","G","H","I","J","K","L","M",
              "N","O","P","Q","R","S","T","U","V","W","X","Y","Z">>
LowerSeq == <<"a","b","c","d","e","f","g","h","i","j","k","l","m",
              "n","o","p","q","r","s","t","u","v","w","x","y","z">>

\* (?i): a character folded to lower case
ToLower(c) ==
    IF c \in Upper
    THEN LowerSeq[CHOOSE i \in 1..26 : UpperSeq[i] = c]
    ELSE c

FoldCase(s) == [i \in 1..Len(s) |-> ToLower(s[i])]

\* the first index >= from of s holding a character of set, Len(s)+1 if none
FirstIn(s, from, set) ==
    LET I == {i \in from..Len(s) : s[i] \in set}
    IN  IF I = {} THEN Len(s) + 1
        ELSE CHOOSE i \in I : \A j \in I : i <= j

StartsWith(s, p) == Len(s) >= Len(p) /\ SubSeq(s, 1, Len(p)) = p

\* two adjacent occurrences of character c in s
HasDouble(s, c) == \E i \in 1..(Len(s) - 1) : s[i] = c /\ s[i + 1] = c

\* str::split(sep): never empty, "" gives [""], "/a" gives ["", "a"]
RECURSIVE Split(_, _)
Split(s, sep) ==
    LET i == FirstIn(s, 1, {sep})
    IN  IF i > Len(s) THEN <<s>>
        ELSE <<SubSeq(s, 1, i - 1)>> \o Split(SubSeq(s, i + 1, Len(s)), sep)

\* [String]::join(sep)
RECURSIVE Join(_, _)
Join(parts, sep) ==
    IF parts = <<>> THEN <<>>
    ELSE IF Len(parts) = 1 THEN parts[1]
    ELSE parts[1] \o <<sep>> \o Join(Tail(parts), sep)

\* all strings over alphabet A of length n, and of length at most n
RECURSIVE StringsOfLen(_, _)
StringsOfLen(A, n) ==
    IF n = 0 THEN {<<>>}
    ELSE {Append(s, c) : s \in StringsOfLen(A, n - 1), c \in A}

StringsUpTo(A, n) == UNION {StringsOfLen(A, k) : k \in 0..n}

\* Option<String>
None == [some |-> FALSE, val |-> <<>>]
Some(s) == [some |-> TRUE, val |-> s]

----------------------------------------------------------------------------
(* The two grammars.                                                       *)

DidChars == Alnum \cup {":", "%", "-"}
DomainChars == Alnum \cup {".", ":", "-"}

\* (?:did:[a-z0-9:%-]+)
IsDidHost(h) ==
    /\ Len(h) >= 5
    /\ FoldCase(SubSeq(h, 1, 4)) = <<"d","i","d",":">>
    /\ \A i \in 5..Len(h) : h[i] \in DidChars

\* (?:[a-z0-9][a-z0-9.:-]*)
IsDomainHost(h) ==
    /\ Len(h) >= 1
    /\ h[1] \in Alnum
    /\ \A i \in 2..Len(h) : h[i] \in DomainChars

\* (#[^\s]+)?$ on what is left of the input
HashMatches(hash) ==
    \/ hash = <<>>
    \/ /\ hash[1] = "#"
       /\ Len(hash) >= 2
       /\ \A i \in 1..Len(hash) : hash[i] \notin Space

\* where (/[^?#\s]*)? stops
RelPathEnd(input) ==
    IF input # <<>> /\ input[1] = "/"
    THEN FirstIn(input, 2, {"?", "#"} \cup Space)
    ELSE 1

\* where (\?[^#\s]+)? stops after a path that stopped at pEnd
RelQueryEnd(input, pEnd) ==
    IF pEnd <= Len(input) /\ input[pEnd] = "?"
    THEN FirstIn(input, pEnd + 1, {"#"} \cup Space)
    ELSE pEnd

\* the three captures: a "?" with nothing after it is no query, and no match
RelCaptures(input, pEnd, qEnd) ==
    [m     |-> (qEnd = pEnd \/ qEnd > pEnd + 1)
               /\ HashMatches(SubSeq(input, qEnd, Len(input))),
     path  |-> SubSeq(input, 1, pEnd - 1),
     query |-> SubSeq(input, pEnd, qEnd - 1),
     hash  |-> SubSeq(input, qEnd, Len(input))]

RelAfterPath(input, pEnd) == RelCaptures(input, pEnd, RelQueryEnd(input, pEnd))

\* ^(/[^?#\s]*)?(\?[^#\s]+)?(#[^\s]+)?$ with its three captures
relative_regex(input) == RelAfterPath(input, RelPathEnd(input))

HostCaptures(host, rel) ==
    [m     |-> (IsDidHost(host) \/ IsDomainHost(host)) /\ rel.m,
     host  |-> host,
     path  |-> rel.path,
     query |-> rel.query,
     hash  |-> rel.hash]

HostUpTo(t, hEnd) ==
    HostCaptures(SubSeq(t, 1, hEnd - 1), relative_regex(SubSeq(t, hEnd, Len(t))))

\* the host and what follows it, once the scheme marker is decided: no host
\* character is a "/", "?" or "#"
HostAndRest(t) == HostUpTo(t, FirstIn(t, 1, {"/", "?", "#"}))

\* (at://)? is greedy: the match with the marker, when there is one
SchemeOrNot(input, marked, a, b) ==
    IF marked /\ a.m
    THEN [m |-> TRUE, scheme |-> SubSeq(input, 1, 5), host |-> a.host,
          path |-> a.path, query |-> a.query, hash |-> a.hash]
    ELSE [m |-> b.m, scheme |-> <<>>, host |-> b.host,
          path |-> b.path, query |-> b.query, hash |-> b.hash]

\* ^(at://)?(host)(/path)?(\?query)?(#hash)?$ with its five captures
atp_uri_regex(input) ==
    SchemeOrNot(input,
                Len(input) >= 5
                  /\ FoldCase(SubSeq(input, 1, 5)) = <<"a","t",":","/","/">>,
                HostAndRest(SubSeq(input, 6, Len(input))),
                HostAndRest(input))

----------------------------------------------------------------------------
(* The url crate, as the code uses it: Url::parse of a dummy URL, its      *)
(* query_pairs(), and Url::parse_with_params.  The strings handed to these *)
(* operators hold no white space, no "%" outside a query and no ":" or "@" *)
(* before the first "/", "?" or "#".                                       *)

\* percent codes of the ASCII punctuation
PctTable ==
    << <<" ","2","0">>, <<"!","2","1">>, <<"\"","2","2">>, <<"#","2","3">>,
       <<"$","2","4">>, <<"%","2","5">>, <<"&","2","6">>, <<"'","2","7">>,
       <<"(","2","8">>, <<")","2","9">>, <<"+","2","B">>, <<",","2","C">>,
       <<"/","2","F">>, <<":","3","A">>, <<";","3","B">>, <<"<","3","C">>,
       <<"=","3","D">>, <<">","3","E">>, <<"?","3","F">>, <<"@","4","0">>,
       <<"[","5","B">>, <<"\\","5","C">>, <<"]","5","D">>, <<"^","5","E">>,
       <<"_","5","F">>, <<"{","7","B">>, <<"|","7","C">>, <<"}","7","D">>,
       <<"~","7","E">> >>

PctOfChar(c) == {i \in 1..Len(PctTable) : PctTable[i][1] = c}
PctOfCode(h1, h2) ==
    {i \in 1..Len(PctTable) :
        /\ ToLower(PctTable[i][2]) = ToLower(h1)
        /\ ToLower(PctTable[i][3]) = ToLower(h2)}

\* form_urlencoded::byte_serialize
FormSafe == Alnum \cup {"*", "-", ".", "_"}
RECURSIVE FormEncode(_)
FormEncode(s) ==
    IF s = <<>> THEN <<>>
    ELSE LET c == s[1]
             e == IF c \in FormSafe THEN <<c>>
                  ELSE IF c = " " THEN <<"+">>
                  ELSE IF PctOfChar(c) # {}
                  THEN LET i == CHOOSE i \in PctOfChar(c) : TRUE
                       IN  <<"%", PctTable[i][2], PctTable[i][3]>>
                  ELSE <<c>>
         IN  e \o FormEncode(Tail(s))

\* form_urlencoded decoding: a plus sign is a space, %XX is the byte XX
RECURSIVE FormDecode(_)
FormDecode(s) ==
    IF s = <<>> THEN <<>>
    ELSE IF s[1] = "+" THEN <<" ">> \o FormDecode(Tail(s))
    ELSE IF s[1] = "%" /\ Len(s) >= 3 /\ PctOfCode(s[2], s[3]) # {}
    THEN LET i == CHOOSE i \in PctOfCode(s[2], s[3]) : TRUE
         IN  <<PctTable[i][1]>> \o FormDecode(SubSeq(s, 4, Len(s)))
    ELSE <<s[1]>> \o FormDecode(Tail(s))

\* form_urlencoded::parse: the pieces between "&", the empty ones skipped,
\* each cut at its first "="
RECURSIVE FormPairs(_)
FormPairs(pieces) ==
    IF pieces = <<>> THEN <<>>
    ELSE LET p == pieces[1]
             i == FirstIn(p, 1, {"="})
         IN  IF p = <<>> THEN FormPairs(Tail(pieces))
             ELSE << <<FormDecode(SubSeq(p, 1, i - 1)),
                       FormDecode(SubSeq(p, i + 1, Len(p)))>> >>
                  \o FormPairs(Tail(pieces))

FormParse(q) == FormPairs(Split(q, "&"))

\* form_urlencoded::Serializer::extend_pairs
RECURSIVE FormSerialize(_)
FormSerialize(pairs) ==
    IF pairs = <<>> THEN <<>>
    ELSE LET one == FormEncode(pairs[1][1]) \o <<"=">> \o FormEncode(pairs[1][2])
         IN  IF Len(pairs) = 1 THEN one
             ELSE one \o <<"&">> \o FormSerialize(Tail(pairs))

UrlForbiddenHost == {"<", ">", "[", "]", "^", "|"}

\* the query of the dummy URL: from a "?" at q to the next "#"
DummyUrlQuery(v, q) ==
    IF q <= Len(v) /\ v[q] = "?"
    THEN FormParse(SubSeq(v, q + 1, FirstIn(v, q + 1, {"#"}) - 1))
    ELSE <<>>

DummyUrlAt(v, cut, ok) ==
    [ok |-> ok,
     pairs |-> IF ok THEN DummyUrlQuery(v, FirstIn(v, cut, {"?", "#"})) ELSE <<>>]

DummyUrlHost(v, cut) ==
    DummyUrlAt(v, cut, \A i \in 1..(cut - 1) : v[i] \notin UrlForbiddenHost)

\* Url::parse(format!("http://example.com{}", v)) followed by query_pairs():
\* what precedes the first "/", "?", "#" or "\" extends the host, the query
\* runs from the first "?" (if no "#" comes before it) to the next "#"
dummy_url_query_pairs(v) == DummyUrlHost(v, FirstIn(v, 1, {"/", "?", "#", "\\"}))

\* Url::parse_with_params("http://example.com", params) followed by query():
\* query_pairs_mut() opens the query, so it is Some, and "" for no pairs
params_url_query(params) == Some(FormSerialize(params))

----------------------------------------------------------------------------
(* AtUri.                                                                  *)

NoUri == [hash |-> <<>>, host |-> <<>>, pathname |-> <<>>, search_params |-> <<>>]
NoErr == [msg |-> "", arg |-> <<>>]

\* bail!("Invalid at uri: ..."), for the input and for the base alike
InvalidAtUri(s) == [msg |-> "Invalid at uri", arg |-> s]
\* bail!("Invalid path: ..."): with the text of the other bail!, then as it is
InvalidPathMsg(s) == [msg |-> "Invalid at uri", arg |-> s]
InvalidPath(s) == [msg |-> "Invalid path", arg |-> s]
\* the error of Url::parse that the ? operator hands on
UrlError == [msg |-> "url::ParseError", arg |-> <<>>]

\* Ok(Some(ParsedOutput {..})), or the error of Url::parse
ParsedOutput(host, matches, url) ==
    IF ~url.ok THEN [ok |-> FALSE, some |-> FALSE, val |-> NoUri]
    ELSE [ok |-> TRUE, some |-> TRUE,
          val |-> [hash          |-> matches.hash,
                   host          |-> host,
                   pathname      |-> matches.path,
                   search_params |-> url.pairs]]

ParseMatches(matches) ==
    IF ~matches.m THEN [ok |-> TRUE, some |-> FALSE, val |-> NoUri]
    ELSE ParsedOutput(matches.host, matches, dummy_url_query_pairs(matches.query))

\* parse: Ok(None) is [ok, some = FALSE], Err is [ok = FALSE]
parse(str) == ParseMatches(atp_uri_regex(str))

ParseRelativeMatches(matches) ==
    IF ~matches.m THEN [ok |-> TRUE, some |-> FALSE, val |-> NoUri]
    ELSE ParsedOutput(<<>>, matches, dummy_url_query_pairs(matches.query))

parse_relative(str) == ParseRelativeMatches(relative_regex(str))

Fail(e) == [ok |-> FALSE, val |-> NoUri, err |-> e]
Ok(u) == [ok |-> TRUE, val |-> u, err |-> NoErr]

\* None => match parse(&uri)?
NewAbsolute(u, p) ==
    IF ~p.ok THEN Fail(UrlError)
    ELSE IF ~p.some THEN Fail(InvalidAtUri(u))
    ELSE Ok(p.val)

\* Some(parsed_base) => match parse_relative(&uri)?
NewRelative(u, host, pr) ==
    IF ~pr.ok THEN Fail(UrlError)
    ELSE IF ~pr.some THEN Fail(InvalidPath(u))
    ELSE Ok([hash          |-> pr.val.hash,
             host          |-> host,
             pathname      |-> pr.val.pathname,
             search_params |-> pr.val.search_params])

\* Some(base) => match parse(&base)?
NewWithBase(u, base, pb) ==
    IF ~pb.ok THEN Fail(UrlError)
    ELSE IF ~pb.some THEN Fail(InvalidAtUri(base))
    ELSE NewRelative(u, pb.val.host, parse_relative(u))

\* AtUri::new
new(u, base) ==
    IF base.some THEN NewWithBase(u, base.val, parse(base.val))
    ELSE NewAbsolute(u, parse(u))

\* the string AtUri::make hands to AtUri::new
make_str(handle_or_did, collection, rkey) ==
    handle_or_did
      \o (IF collection.some THEN <<"/">> \o collection.val ELSE <<>>)
      \o (IF rkey.some THEN <<"/">> \o rkey.val ELSE <<>>)

make(handle_or_did, collection, rkey) ==
    new(make_str(handle_or_did, collection, rkey), None)

get_protocol(self) == <<"a","t",":">>
get_origin(self) == <<"a","t",":","/","/">> \o self.host
get_hostname(self) == self.host
set_hostname(self, v) == [self EXCEPT !.host = v]

\* Result<Option<String>>: the dummy URL always parses
get_search(self) == params_url_query(self.search_params)

SetSearchParams(self, url) ==
    IF url.ok THEN [ok |-> TRUE, val |-> [self EXCEPT !.search_params = url.pairs]]
    ELSE [ok |-> FALSE, val |-> self]

\* Result<AtUri>: the identifier is left alone when Url::parse fails
set_search(self, v) == SetSearchParams(self, dummy_url_query_pairs(v))

\* Vec::get(n), 0-based, "" when out of range
GetOrEmpty(parts, n) == IF n + 1 <= Len(parts) THEN parts[n + 1] ELSE <<>>

PartAt(self, n) == GetOrEmpty(Split(self.pathname, "/"), n)

get_collection(self) == PartAt(self, 1)
\* get_rkey: reading index 1 as get_collection does, then as it is
RkeyAtOne(self) == PartAt(self, 1)
get_rkey(self) == PartAt(self, 2)

SetFirstPart(parts, v) ==
    IF Len(parts) > 0 THEN [parts EXCEPT ![1] = v]
    ELSE Append(parts, v)

set_collection(self, v) ==
    [self EXCEPT !.pathname = Join(SetFirstPart(Split(self.pathname, "/"), v), "/")]

Undefined == <<"u","n","d","e","f","i","n","e","d">>

SetSecondPart(parts, v) ==
    IF Len(parts) > 1 THEN [parts EXCEPT ![2] = v]
    ELSE IF Len(parts) > 0 THEN Append(parts, v)
    ELSE <<Undefined, v>>

set_rkey(self, v) ==
    [self EXCEPT !.pathname = Join(SetSecondPart(Split(self.pathname, "/"), v), "/")]

FmtPath(pathname) ==
    IF pathname = <<>> THEN <<"/">>
    ELSE IF ~StartsWith(pathname, <<"/">>) THEN <<"/">> \o pathname
    ELSE pathname

FmtSearch(s) ==
    IF s.some /\ ~StartsWith(s.val, <<"?">>) /\ s.val # <<>>
    THEN <<"?">> \o s.val
    ELSE IF s.some THEN s.val
    ELSE <<>>

FmtHash(hash) == IF hash = <<>> THEN hash ELSE <<"#">> \o hash

\* impl Display for AtUri
to_string(self) ==
    <<"a","t",":","/","/">> \o self.host \o FmtPath(self.pathname)
        \o FmtSearch(get_search(self)) \o FmtHash(self.hash)

get_href(self) == to_string(self)

----------------------------------------------------------------------------
(* Inputs.                                                                 *)

Alphabet == {"a", ":", "/", "?", "#", "=", " "}

ExampleCom == <<"e","x","a","m","p","l","e",".","c","o","m">>
DidPlcAbc == <<"d","i","d",":","p","l","c",":","a","b","c">>
AppBskyFeedPost == <<"a","p","p",".","b","s","k","y",".","f","e","e","d",".","p","o","s","t">>
AppBskyFeedLike == <<"a","p","p",".","b","s","k","y",".","f","e","e","d",".","l","i","k","e">>
Rkey123 == <<"1","2","3">>
Frag == <<"f","r","a","g">>

Schemes == {<<>>, <<"a","t",":","/","/">>, <<"A","T",":","/","/">>}
Hosts == {ExampleCom, DidPlcAbc}
Paths == {<<>>, <<"/">>, <<"/">> \o AppBskyFeedPost,
          <<"/">> \o AppBskyFeedPost \o <<"/">> \o Rkey123}
Queries == {<<>>, <<"?","q","=","1">>, <<"?","k","=","v","&","q","=","1">>}
Hashes == {<<>>, <<"#">> \o Frag}

RelativeInputs == {p \o q \o h : p \in Paths, q \in Queries, h \in Hashes}
AbsoluteInputs == {s \o h \o r : s \in Schemes, h \in Hosts, r \in RelativeInputs}

\* what AtUri::new is called with
Inputs == StringsUpTo(Alphabet, MaxLen) \cup RelativeInputs \cup AbsoluteInputs
Bases == {None, Some(DidPlcAbc \o <<"/","i","g","n","o","r","e","d">>), Some(<<"a","/","a","?","a","=","a","#","a">>),
          Some(<<>>), Some(<<"/","a">>), Some(<<"a"," ","a">>)}

\* what AtUri::make is called with
MakeHosts == {ExampleCom, DidPlcAbc, <<>>, <<"a"," ","a">>}
MakeSegs == {None, Some(AppBskyFeedPost), Some(Rkey123), Some(<<>>), Some(<<"a","?","b">>)}

\* what the operations on a live identifier are called with
MutInputs == {ExampleCom, ExampleCom \o <<"/">>,
              ExampleCom \o <<"/">> \o AppBskyFeedPost,
              ExampleCom \o <<"/">> \o AppBskyFeedPost \o <<"/">> \o Rkey123,
              ExampleCom \o <<"/">> \o AppBskyFeedPost \o <<"/">> \o Rkey123
                \o <<"?","q","=","1","#","f","r","a","g">>,
              <<"a"," ","a">>}
SegVals == {AppBskyFeedLike, <<"4","5","6">>}
HostVals == {DidPlcAbc}
SearchVals == {<<>>, <<"q","=","1">>, <<"k","=","v","&","q","=","1">>, <<"?","q","=","1">>, <<"?","k","=","v","&","q","=","1">>, <<"?","q","=","1","#","x">>, <<"/","p","?","q","=","1">>, <<"<","?","q","=","1">>}

----------------------------------------------------------------------------
(* The identifier: one AtUri from its construction on.                     *)

NoCall == [op |-> "none", a1 |-> None, a2 |-> None, a3 |-> None]
NoRet == [op |-> "none", val |-> <<>>]

InitUri ==
    /\ pc = "start"
    /\ uri = NoUri
    /\ err = NoErr
    /\ call = NoCall
    /\ ret = NoRet

Construct(r, c) ==
    /\ pc = "start"
    /\ pc' = IF r.ok THEN "live" ELSE "failed"
    /\ uri' = r.val
    /\ err' = r.err
    /\ call' = c
    /\ ret' = NoRet

\* AtUri::new(u, base)
New(u, base) ==
    /\ Construct(new(u, base), [op |-> "new", a1 |-> Some(u), a2 |-> base, a3 |-> None])
    /\ UNCHANGED carVars

\* AtUri::make(h, collection, rkey)
Make(h, collection, rkey) ==
    /\ Construct(make(h, collection, rkey),
                 [op |-> "make", a1 |-> Some(h), a2 |-> collection, a3 |-> rkey])
    /\ UNCHANGED carVars

\* a call of a method taking &self
Read(name, value) ==
    /\ pc = "live"
    /\ ret' = [op |-> name, val |-> value]
    /\ UNCHANGED <<pc, uri, err, call>>
    /\ UNCHANGED carVars

GetProtocol == Read("get_protocol", get_protocol(uri))
GetOrigin == Read("get_origin", get_origin(uri))
GetHostname == Read("get_hostname", get_hostname(uri))
GetSearch == Read("get_search", get_search(uri).val)
GetCollection == Read("get_collection", get_collection(uri))
GetRkey == Read("get_rkey", get_rkey(uri))
GetHref == Read("get_href", get_href(uri))
Fmt == Read("to_string", to_string(uri))

\* a call of a method taking &mut self
Write(name, v, after, e) ==
    /\ pc = "live"
    /\ uri' = after
    /\ err' = e
    /\ call' = [op |-> name, a1 |-> Some(v), a2 |-> None, a3 |-> None]
    /\ ret' = NoRet
    /\ UNCHANGED pc
    /\ UNCHANGED carVars

SetHostname(v) == Write("set_hostname", v, set_hostname(uri, v), NoErr)
SetSearchResult(v, r) ==
    Write("set_search", v, r.val, IF r.ok THEN NoErr ELSE UrlError)
SetSearch(v) == SetSearchResult(v, set_search(uri, v))
SetCollection(v) == Write("set_collection", v, set_collection(uri, v), NoErr)
SetRkey(v) == Write("set_rkey", v, set_rkey(uri, v), NoErr)

\* construction and reading, over all the inputs
Next ==
    \/ pc = "start" /\ \E u \in Inputs, b \in Bases : New(u, b)
    \/ pc = "start" /\ \E h \in MakeHosts, c \in MakeSegs, r \in MakeSegs : Make(h, c, r)
    \/ GetProtocol
    \/ GetOrigin
    \/ GetHostname
    \/ GetSearch
    \/ GetCollection
    \/ GetRkey
    \/ GetHref
    \/ Fmt

Init ==
    /\ InitUri
    /\ carPc = "idle" /\ root = 0 /\ blocks = <<>> /\ idx = 0
    /\ writer = <<>> /\ car = <<>>

Spec == Init /\ [][Next]_vars

\* construction, reading and writing, over a few identifiers
NextMut ==
    \/ pc = "start" /\ \E u \in MutInputs : New(u, None)
    \/ pc = "start" /\ \E c \in {None, Some(AppBskyFeedPost)}, r \in {None, Some(Rkey123)} :
          Make(ExampleCom, c, r)
    \/ \E v \in HostVals : SetHostname(v)
    \/ \E v \in SearchVals : SetSearch(v)
    \/ \E v \in SegVals : SetCollection(v)
    \/ \E v \in SegVals : SetRkey(v)
    \/ GetSearch
    \/ GetCollection
    \/ GetRkey
    \/ Fmt

SpecMut == Init /\ [][NextMut]_vars

----------------------------------------------------------------------------
(* The archive: read_car_bytes, over the container format of the           *)
(* specification (CarHeader, CarWriter and BlockMap are not part of the    *)
(* sources at hand).                                                       *)

\* container version of CarHeader::new_v1
CarVersion == 1

\* a content identifier is its digest; its binary form carries the length
CidBytes(cid) == <<Len(cid)>> \o cid

\* unsigned variable-length integer, little-endian base-128
RECURSIVE Varint(_)
Varint(n) ==
    IF n < 128 THEN <<n>>
    ELSE <<128 + (n % 128)>> \o Varint(n \div 128)

\* a record: its length, then its payload
Frame(payload) == Varint(Len(payload)) \o payload

RECURSIVE ConcatCids(_)
ConcatCids(cids) ==
    IF cids = <<>> THEN <<>>
    ELSE CidBytes(cids[1]) \o ConcatCids(Tail(cids))

\* {version: 1, roots: [...]}
HeaderPayload(header) ==
    <<header.version, Len(header.roots)>> \o ConcatCids(header.roots)

CarHeaderNewV1(roots) == [version |-> CarVersion, roots |-> roots]

\* CarWriter::new: the header is kept until the first record goes out
CarWriterNew(header, buf) ==
    [header |-> header, buf |-> buf, is_header_written |-> FALSE]

WithHeader(w) ==
    IF w.is_header_written THEN w
    ELSE [w EXCEPT !.buf = w.buf \o Frame(HeaderPayload(w.header)),
                   !.is_header_written = TRUE]

\* CarWriter::write(cid, bytes)
CarWrite(w, cid, bytes) ==
    LET h == WithHeader(w)
    IN  [h EXCEPT !.buf = h.buf \o Frame(CidBytes(cid) \o bytes)]

\* CarWriter::finish()
CarFinish(w) == WithHeader(w).buf

\* a conformant reader of the container
RECURSIVE ReadVarint(_, _)
ReadVarint(b, pos) ==
    IF pos > Len(b) THEN [ok |-> FALSE, val |-> 0, next |-> pos]
    ELSE IF b[pos] < 128 THEN [ok |-> TRUE, val |-> b[pos], next |-> pos + 1]
    ELSE LET r == ReadVarint(b, pos + 1)
         IN  [ok |-> r.ok, val |-> (b[pos] - 128) + 128 * r.val, next |-> r.next]

RECURSIVE ReadCids(_, _, _)
ReadCids(b, pos, n) ==
    IF n = 0 THEN <<>>
    ELSE <<SubSeq(b, pos + 1, pos + b[pos])>> \o ReadCids(b, pos + 1 + b[pos], n - 1)

RECURSIVE ReadBlocks(_, _)
ReadBlocks(b, pos) ==
    IF pos > Len(b) THEN <<>>
    ELSE LET l   == ReadVarint(b, pos)
             rec == SubSeq(b, l.next, l.next + l.val - 1)
         IN  <<[cid   |-> SubSeq(rec, 2, 1 + rec[1]),
                bytes |-> SubSeq(rec, 2 + rec[1], Len(rec))]>>
             \o ReadBlocks(b, l.next + l.val)

NoCar == [ok |-> FALSE, version |-> 0, roots |-> <<>>, blocks |-> <<>>]

DecodeCar(b) ==
    LET l == ReadVarint(b, 1)
        h == SubSeq(b, l.next, l.next + l.val - 1)
    IN  IF ~l.ok \/ Len(h) < 2 THEN NoCar
        ELSE [ok      |-> TRUE,
              version |-> h[1],
              roots   |-> ReadCids(h, 3, h[2]),
              blocks  |-> ReadBlocks(b, l.next + l.val)]

Cids == {<<0>>, <<1>>, <<1, 0>>}
Payloads == {<<>>, <<0>>, <<1, 0>>}
Blocks == [cid : Cids, bytes : Payloads]

RECURSIVE SeqsOfLen(_, _)
SeqsOfLen(S, n) ==
    IF n = 0 THEN {<<>>}
    ELSE {Append(s, x) : s \in SeqsOfLen(S, n - 1), x \in S}

BlockSeqs == UNION {SeqsOfLen(Blocks, k) : k \in 0..MaxBlocks}

NoWriter == CarWriterNew([version |-> 0, roots |-> <<>>], <<>>)

InitCar ==
    /\ InitUri
    /\ carPc = "start"
    /\ root \in Cids
    /\ blocks \in BlockSeqs
    /\ idx = 0
    /\ writer = NoWriter
    /\ car = <<>>

\* vec![*root]
HeaderRoots(r) == <<r>>

\* the entry the loop is at, after i entries: reversed, then as it is
LoopEntryReversed(bs, i) == bs[Len(bs) - i]
LoopEntry(bs, i) == bs[i + 1]

\* let car_header = ...; let mut car_writer = CarWriter::new(car_header, buf)
CarNew ==
    /\ carPc = "start"
    /\ writer' = CarWriterNew(CarHeaderNewV1(HeaderRoots(root)), <<>>)
    /\ carPc' = "entries"
    /\ UNCHANGED <<root, blocks, idx, car>>
    /\ UNCHANGED uriVars

\* blocks.entries()? gives the entries
Entries ==
    /\ carPc = "entries"
    /\ carPc' = "loop"
    /\ idx' = 0
    /\ UNCHANGED <<root, blocks, writer, car>>
    /\ UNCHANGED uriVars

\* blocks.entries()? fails: the error is returned, the writer dropped
EntriesErr ==
    /\ carPc = "entries"
    /\ carPc' = "failed"
    /\ writer' = NoWriter
    /\ UNCHANGED <<root, blocks, idx, car>>
    /\ UNCHANGED uriVars

\* car_writer.write(cid, bytes).await?
WriteBlock ==
    /\ carPc = "loop"
    /\ idx < Len(blocks)
    /\ writer' = CarWrite(writer, LoopEntry(blocks, idx).cid, LoopEntry(blocks, idx).bytes)
    /\ idx' = idx + 1
    /\ UNCHANGED <<carPc, root, blocks, car>>
    /\ UNCHANGED uriVars

\* Ok(car_writer.finish().await?)
Finish ==
    /\ carPc = "loop"
    /\ idx = Len(blocks)
    /\ car' = CarFinish(writer)
    /\ carPc' = "done"
    /\ UNCHANGED <<root, blocks, idx, writer>>
    /\ UNCHANGED uriVars

NextCar ==
    \/ CarNew
    \/ Entries
    \/ EntriesErr
    \/ WriteBlock
    \/ Finish

SpecCar == InitCar /\ [][NextCar]_vars

----------------------------------------------------------------------------
(* The grammars and the path segments, as the specification states them.   *)

PathPart(p) ==
    \/ p = <<>>
    \/ /\ p[1] = "/"
       /\ \A k \in 2..Len(p) : p[k] \notin ({"?", "#"} \cup Space)

QueryPart(q) ==
    \/ q = <<>>
    \/ /\ q[1] = "?"
       /\ Len(q) >= 2
       /\ \A k \in 2..Len(q) : q[k] \notin ({"#"} \cup Space)

HashPart(h) ==
    \/ h = <<>>
    \/ /\ h[1] = "#"
       /\ Len(h) >= 2
       /\ \A k \in 2..Len(h) : h[k] \notin Space

\* (/<pathrest>)?(\?<query>)?(#<fragment>)?
RelGrammar(s) ==
    \E i \in 0..Len(s) :
        /\ PathPart(SubSeq(s, 1, i))
        /\ \E j \in i..Len(s) :
              /\ QueryPart(SubSeq(s, i + 1, j))
              /\ HashPart(SubSeq(s, j + 1, Len(s)))

\* (at://)?(<host>)(/<pathrest>)?(\?<query>)?(#<fragment>)?
AbsGrammar(s) ==
    \E a \in {0, 5} :
        /\ a <= Len(s)
        /\ a = 5 => FoldCase(SubSeq(s, 1, 5)) = <<"a","t",":","/","/">>
        /\ \E h \in (a + 1)..Len(s) :
              /\ IsDidHost(SubSeq(s, a + 1, h)) \/ IsDomainHost(SubSeq(s, a + 1, h))
              /\ RelGrammar(SubSeq(s, h + 1, Len(s)))

\* the components of a relative reference: the path runs to the first "?" or
\* "#", the query from a "?" there to the first "#", the fragment after that "#"
PathOf(s) == SubSeq(s, 1, FirstIn(s, 1, {"?", "#"}) - 1)
QueryOf(s) ==
    LET i == FirstIn(s, 1, {"?", "#"})
    IN  IF i <= Len(s) /\ s[i] = "?"
        THEN SubSeq(s, i + 1, FirstIn(s, 1, {"#"}) - 1)
        ELSE <<>>
FragmentOf(s) == SubSeq(s, FirstIn(s, 1, {"#"}) + 1, Len(s))

\* the text after the n-th "/" of a rooted path, up to the next "/"
SegmentOf(p, n) ==
    LET slashes == {i \in 1..Len(p) : p[i] = "/"}
        at(k)   == CHOOSE i \in slashes : Cardinality({j \in slashes : j <= i}) = k
    IN  IF Cardinality(slashes) < n THEN <<>>
        ELSE SubSeq(p, at(n) + 1,
                    (IF Cardinality(slashes) > n THEN at(n + 1) ELSE Len(p) + 1) - 1)

\* the segments of a path: its non-empty pieces between "/"
NonEmpty(x) == x # <<>>
Segments(p) == SelectSeq(Split(p, "/"), NonEmpty)

\* a segment holds none of the separators
PlainSegment(s) ==
    /\ s # <<>>
    /\ \A i \in 1..Len(s) : s[i] \notin ({"/", "?", "#"} \cup Space)

\* key=value pairs joined by "&", nothing to escape
CanonicalQuery(q) ==
    /\ q # <<>>
    /\ \A i \in 1..Len(q) : q[i] \in (FormSafe \cup {"=", "&"})
    /\ \A i \in 1..Len(Split(q, "&")) :
          LET piece == Split(q, "&")[i]
          IN  /\ Cardinality({k \in 1..Len(piece) : piece[k] = "="}) = 1
              /\ piece[1] # "="

PairsOfCanonical(q) ==
    [i \in 1..Len(Split(q, "&")) |->
        LET piece == Split(q, "&")[i]
            e     == FirstIn(piece, 1, {"="})
        IN  <<SubSeq(piece, 1, e - 1), SubSeq(piece, e + 1, Len(piece))>>]

\* an identifier that construct or build has just returned
Constructed == pc = "live" /\ call.op \in {"new", "make"}

\* what the caller of construct or build sees
Failure(withBase, e) ==
    IF e.msg = "Invalid path" THEN "InvalidPath"
    ELSE IF e.msg = "Invalid at uri"
    THEN (IF withBase THEN "InvalidBase" ELSE "InvalidIdentifier")
    ELSE "Other"

Outcome == IF pc = "live" THEN "Ok" ELSE Failure(call.op = "new" /\ call.a2.some, err)

----------------------------------------------------------------------------
(* The claims.                                                             *)

SameFields(first, again) ==
    /\ again.ok /\ again.some
    /\ again.val.host = first.host
    /\ again.val.search_params = first.search_params
    /\ again.val.hash = first.hash
    /\ \/ again.val.pathname = first.pathname
       \/ first.pathname = <<>> /\ again.val.pathname = <<"/">>

\* C1: round trip. For every string construct accepts with no base, the
\* rendering of the identifier is accepted by parse again, and the second
\* parse has the host, the query pairs and the fragment of the first, and its
\* pathname (an empty pathname being rendered, and parsed again, as "/").
C1_RoundTrip ==
    (pc = "live" /\ call.op = "new" /\ ~call.a2.some) =>
        SameFields(uri, parse(to_string(uri)))

\* C2: marker hygiene. The rendering of an identifier that construct or
\* build returned holds neither "??" nor "##".
C2_MarkerHygiene ==
    Constructed =>
        /\ ~HasDouble(to_string(uri), "?")
        /\ ~HasDouble(to_string(uri), "#")

\* C4: relative resolution. When construct(relative, base) succeeds, the host
\* is the host of construct(base, none), the pathname is the path of the
\* relative input, the query pairs are those of its query, and hash is its
\* fragment without the leading "#".
C4_RelativeResolution ==
    (pc = "live" /\ call.op = "new" /\ call.a2.some) =>
        /\ uri.host = new(call.a2.val, None).val.host
        /\ uri.pathname = PathOf(call.a1.val)
        /\ get_search(uri).val = FormSerialize(FormParse(QueryOf(call.a1.val)))
        /\ uri.hash = FragmentOf(call.a1.val)

C6_SegmentAccessors ==
    Constructed =>
        /\ uri.pathname = <<>> \/ uri.pathname[1] = "/"
        /\ ret.op = "get_collection" => ret.val = SegmentOf(uri.pathname, 1)
        /\ ret.op = "get_rkey" => ret.val = SegmentOf(uri.pathname, 2)
        /\ (/\ call.op = "make"
            /\ call.a2.some /\ PlainSegment(call.a2.val)
            /\ call.a3.some => PlainSegment(call.a3.val)) =>
              /\ ret.op = "get_collection" => ret.val = call.a2.val
              /\ ret.op = "get_rkey" =>
                    ret.val = (IF call.a3.some THEN call.a3.val ELSE <<>>)

\* C6, its case: the record key of example.com/app.bsky.feed.post/123
C6_Witness ==
    /\ pc = "live"
    /\ call.op = "new"
    /\ call.a1.val = ExampleCom \o <<"/">> \o AppBskyFeedPost \o <<"/">> \o Rkey123
    /\ ret = [op |-> "get_rkey", val |-> Rkey123]

\* C7: query fixed point. After set_search(q) with a canonical q, the call
\* has succeeded, search() is q, and search_params are the pairs of q in
\* their order.
C7_QueryFixedPoint ==
    (pc = "live" /\ call.op = "set_search" /\ CanonicalQuery(call.a1.val)) =>
        /\ err = NoErr
        /\ get_search(uri) = Some(call.a1.val)
        /\ uri.search_params = PairsOfCanonical(call.a1.val)

\* C8: set_record_key(k). With two or more segments the second becomes k and
\* the first stays; with one segment k is appended as the second; with none
\* the path becomes the placeholder "undefined" followed by k.
C8_SetRkeyPolicy ==
    [][\A k \in SegVals :
          SetRkey(k) =>
              LET old == Segments(uri.pathname)
                  now == Segments(uri'.pathname)
              IN  IF Len(old) >= 2
                  THEN Len(now) >= 2 /\ now[1] = old[1] /\ now[2] = k
                  ELSE IF Len(old) = 1 THEN now = <<old[1], k>>
                  ELSE now = <<Undefined, k>>]_vars

\* C9: set_collection(c). The first segment becomes c and every later
\* segment stays (c is the only segment of a path that was empty); host,
\* search_params and hash stay.
C9_SetCollectionFrame ==
    [][\A c \in SegVals :
          SetCollection(c) =>
              LET old == Segments(uri.pathname)
              IN  /\ Segments(uri'.pathname) =
                        <<c>> \o (IF old = <<>> THEN <<>> ELSE Tail(old))
                  /\ uri'.host = uri.host
                  /\ uri'.search_params = uri.search_params
                  /\ uri'.hash = uri.hash]_vars

\* C10: setter/getter agreement. After set_collection(c), collection() is c
\* and record_key() is what it was; after set_record_key(k), record_key() is
\* k and collection() is what it was.
C10_SetterGetterAgreement ==
    [][/\ \A c \in SegVals :
            SetCollection(c) =>
                /\ get_collection(uri') = c
                /\ get_rkey(uri') = get_rkey(uri)
       /\ \A k \in SegVals :
            SetRkey(k) =>
                /\ get_rkey(uri') = k
                /\ get_collection(uri') = get_collection(uri)]_vars

\* C3: archive framing and order. The finished archive decodes to version 1,
\* the roots [root] and the blocks supplied, each once and in their order;
\* while the loop runs, what has been written after the header is the blocks
\* gone through so far, in their order.
C3_ArchiveFraming ==
    /\ carPc = "done" =>
          LET d == DecodeCar(car)
          IN  /\ d.ok
              /\ d.version = 1
              /\ d.roots = <<root>>
              /\ d.blocks = blocks
    /\ (carPc = "loop" /\ idx > 0) =>
          /\ writer.is_header_written
          /\ DecodeCar(writer.buf).roots = <<root>>
          /\ DecodeCar(writer.buf).blocks = SubSeq(blocks, 1, idx)

\* C3, its case: two blocks, the larger identifier first, both written
C3_Witness ==
    /\ carPc = "done"
    /\ blocks = <<[cid |-> <<1, 0>>, bytes |-> <<1, 0>>], [cid |-> <<0>>, bytes |-> <<>>]>>
    /\ DecodeCar(car).blocks = blocks

====
